---- MODULE Spec2Model ----
(***************************************************************************)
(* MPSC_Queue and MPMC_Queue of include/mpsc_queue.h: two linked-list      *)
(* queues whose nodes live on a heap of NumNodes addresses.  Every atomic  *)
(* access of the source is one step of the calling thread.  An access to a *)
(* node that is not allocated is undefined behaviour: a read yields any    *)
(* value or aborts the run; a null dereference stops the program.          *)
(***************************************************************************)
EXTENDS Integers, Sequences, FiniteSets, TLC

NumNodes == 5      \* heap addresses
MaxEnq == 3        \* enqueue calls in one run
MaxDeq == 4        \* dequeue calls are started while fewer values were returned
StepCap == 6       \* the per-call step counter stops counting here
MaxUB == 1         \* undefined accesses a run survives; the next one aborts it

Null == 0
Nodes == 1..NumNodes
Values == 1..MaxEnq
Queues == {"A", "B"}
Producers == {"p1", "p2"}
Consumers == {"c1", "c2"}
Threads == Producers \cup Consumers \cup {"main"}

VARIABLES
  kind,      \* "MPSC" or "MPMC": the class of both queue objects
  obj,       \* obj[q]: "none" (no object), "live", "dead" (destructor ran)
  head,      \* head[q]: Node* / std::atomic<Node*>
  tail,      \* tail[q]: std::atomic<Node*>
  heap,      \* heap[n]: [st, data, next]; st is "unused", "live" or "freed"
  pc,        \* pc[t]: the source line thread t executes next, or "idle"
  loc,       \* loc[t]: the locals of the call thread t is in
  fault,     \* "none", or "null_deref" once a null pointer was dereferenced
  uaf,       \* the reads and writes of a node that was not allocated
  dfree,     \* the deletes of a node that was not allocated
  started,   \* enqueue calls started; the k-th call enqueues the value k
  xchg,      \* the values in the order of their tail exchange
  enqQ,      \* enqQ[v]: the queue object value v was enqueued on
  done,      \* the values whose enqueue call has returned
  content,   \* content[q]: the values exchanged into q's chain and not yet claimed
  popped,    \* the values claimed from the front of a content, in that order
  ret        \* the non-empty results of dequeue, in the order the calls returned

vars == <<kind, obj, head, tail, heap, pc, loc, fault, uaf, dfree,
          started, xchg, enqQ, done, content, popped, ret>>

ghost == <<started, xchg, enqQ, done, content, popped, ret>>

\* ------------------------------------------------------------------ heap

\* struct Node { std::unique_ptr<T> data; std::atomic<Node*> next; }
Node(d) == [st |-> "live", data |-> d, next |-> Null]

Blank(state) == [st |-> state, data |-> Null, next |-> Null]

Live(n) == n # Null /\ heap[n].st = "live"

Min(S) == CHOOSE x \in S : \A y \in S : x <= y

\* operator new: a freed address may be handed out again
NewChoices ==
  LET unused == {n \in Nodes : heap[n].st = "unused"}
      freed == {n \in Nodes : heap[n].st = "freed"}
  IN  freed \cup (IF unused = {} THEN {} ELSE {Min(unused)})

\* n->next.load(): the link of an allocated node, anything otherwise
NextOutcomes(n) == IF Live(n) THEN {heap[n].next} ELSE Nodes \cup {Null}

\* n->data read: the payload of an allocated node, anything otherwise
DataOutcomes(n) == IF Live(n) THEN {heap[n].data} ELSE Values \cup {Null}

\* n->next.store(m): a store to memory that is not allocated is lost
StoreNext(h, n, m) == IF h[n].st = "live" THEN [h EXCEPT ![n].next = m] ELSE h

\* std::move(n->data) leaves the unique_ptr of the node empty
TakeData(h, n) == IF h[n].st = "live" THEN [h EXCEPT ![n].data = Null] ELSE h

\* delete n
Delete(h, n) == [h EXCEPT ![n] = Blank("freed")]

\* ----------------------------------------------------------------- locals

NoLoc == [op |-> "none", q |-> "A", src |-> "A", v |-> Null,
          new_node |-> Null, prev_tail |-> Null, old_head |-> Null,
          next_node |-> Null, current |-> Null, tail_node |-> Null,
          count |-> 0, res |-> Null, steps |-> 0, rounds |-> 0, rank |-> 0]

Call(t, name, q) == [NoLoc EXCEPT !.op = name, !.q = q, !.steps = 1]

Step(l) == [l EXCEPT !.steps = IF @ < StepCap THEN @ + 1 ELSE @]

\* what is left of the locals when the call returns r
Return(l, r) == [NoLoc EXCEPT !.op = l.op, !.q = l.q, !.src = l.src,
                              !.res = r, !.steps = l.steps, !.rounds = l.rounds]

At(t, label) == fault = "none" /\ pc[t] = label

Usable(q) == obj[q] = "live"

\* A field of node n is read or written.  When n is not allocated the access is
\* undefined: the run goes on with whatever the access yields (at most MaxUB
\* times) or is aborted by bad_access.
Access(n) ==
  /\ Live(n) \/ uaf + dfree < MaxUB
  /\ uaf' = IF Live(n) THEN uaf ELSE uaf + 1

\* delete n, likewise
Release(n) ==
  /\ Live(n) \/ uaf + dfree < MaxUB
  /\ dfree' = IF Live(n) THEN dfree ELSE dfree + 1

\* a null pointer is dereferenced: the program stops
Crash == /\ fault' = "null_deref"
         /\ UNCHANGED <<kind, obj, head, tail, heap, pc, loc, uaf, dfree, ghost>>

Range(s) == {s[i] : i \in 1..Len(s)}

\* the first element of a sequence as a sequence, and the others
First(s) == IF s = <<>> THEN <<>> ELSE <<Head(s)>>

Rest(s) == IF s = <<>> THEN <<>> ELSE Tail(s)

IsPrefix(s, r) == Len(s) <= Len(r) /\ \A i \in 1..Len(s) : s[i] = r[i]

\* ---------------------------------------------------------------- enqueue
\* MPSC_Queue::enqueue (61-67) and MPMC_Queue::enqueue (183-191)

\* 64 / 186-187: Node* new_node = new Node(std::forward<U>(value));
enqueue_new(t, q) ==
  /\ At(t, "idle")
  /\ Usable(q)
  /\ started < MaxEnq
  /\ \E n \in NewChoices :
       /\ heap' = [heap EXCEPT ![n] = Node(started + 1)]
       /\ loc' = [loc EXCEPT ![t] =
                    [Call(t, "enqueue", q) EXCEPT !.v = started + 1, !.new_node = n]]
  /\ pc' = [pc EXCEPT ![t] = "enq_exchange"]
  /\ started' = started + 1
  /\ enqQ' = Append(enqQ, q)
  /\ UNCHANGED <<kind, obj, head, tail, fault, uaf, dfree, xchg, done, content, ret, popped>>

\* the tail is swung by a compare-and-swap that may fail and is then tried again
enqueue_exchange_cas_loop(t) ==
  /\ At(t, "enq_exchange")
  /\ LET q == loc[t].q IN
       \/ /\ tail' = [tail EXCEPT ![q] = loc[t].new_node]
          /\ loc' = [loc EXCEPT ![t] = Step([@ EXCEPT !.prev_tail = tail[q]])]
          /\ xchg' = Append(xchg, loc[t].v)
          /\ content' = [content EXCEPT ![q] = Append(@, loc[t].v)]
          /\ pc' = [pc EXCEPT ![t] = "enq_store"]
       \/ /\ loc' = [loc EXCEPT ![t] = Step(@)]
          /\ UNCHANGED <<tail, xchg, content, pc>>
  /\ UNCHANGED <<kind, obj, head, heap, fault, uaf, dfree, started, enqQ, done, ret, popped>>

\* 65 / 189: Node* prev_tail = tail.exchange(new_node, acq_rel);
enqueue_exchange(t) ==
  /\ At(t, "enq_exchange")
  /\ LET q == loc[t].q IN
       /\ tail' = [tail EXCEPT ![q] = loc[t].new_node]
       /\ loc' = [loc EXCEPT ![t] = Step([@ EXCEPT !.prev_tail = tail[q]])]
       /\ xchg' = Append(xchg, loc[t].v)
       /\ content' = [content EXCEPT ![q] = Append(@, loc[t].v)]
  /\ pc' = [pc EXCEPT ![t] = "enq_store"]
  /\ UNCHANGED <<kind, obj, head, heap, fault, uaf, dfree, started, enqQ, done, ret, popped>>

\* the new node is linked behind the head instead of behind prev_tail
enqueue_store_behind_head(t) ==
  /\ At(t, "enq_store")
  /\ LET p == head[loc[t].q] IN
       IF p = Null THEN Crash
       ELSE /\ heap' = StoreNext(heap, p, loc[t].new_node)
            /\ Access(p)
            /\ loc' = [loc EXCEPT ![t] = Return(Step(@), Null)]
            /\ pc' = [pc EXCEPT ![t] = "idle"]
            /\ done' = done \cup {loc[t].v}
            /\ UNCHANGED <<kind, obj, head, tail, fault, dfree,
                           started, xchg, enqQ, content, ret, popped>>

\* the enqueue returns without linking the new node behind prev_tail
enqueue_store_no_link(t) ==
  /\ At(t, "enq_store")
  /\ loc' = [loc EXCEPT ![t] = Return(Step(@), Null)]
  /\ pc' = [pc EXCEPT ![t] = "idle"]
  /\ done' = done \cup {loc[t].v}
  /\ UNCHANGED <<kind, obj, head, tail, heap, fault, uaf, dfree,
                 started, xchg, enqQ, content, ret, popped>>

\* 66 / 190: prev_tail->next.store(new_node, release);
enqueue_store(t) ==
  /\ At(t, "enq_store")
  /\ LET p == loc[t].prev_tail IN
       IF p = Null THEN Crash
       ELSE /\ heap' = StoreNext(heap, p, loc[t].new_node)
            /\ Access(p)
            /\ loc' = [loc EXCEPT ![t] = Return(Step(@), Null)]
            /\ pc' = [pc EXCEPT ![t] = "idle"]
            /\ done' = done \cup {loc[t].v}
            /\ UNCHANGED <<kind, obj, head, tail, fault, dfree,
                           started, xchg, enqQ, content, ret, popped>>

\* ----------------------------------------------------- MPSC_Queue::dequeue
\* lines 70-84; head is a plain Node* that only the consumer touches

\* 72-77: Node* next_node = this->head->next.load(acquire); if (!next_node) return nullptr;
sc_dequeue_load(t, q) ==
  /\ At(t, "idle")
  /\ kind = "MPSC"
  /\ Usable(q)
  /\ Len(ret) < MaxDeq
  /\ LET h == head[q] IN
       IF h = Null THEN Crash
       ELSE \E nx \in NextOutcomes(h) :
              /\ Access(h)
              /\ IF nx = Null
                 THEN /\ loc' = [loc EXCEPT ![t] = Return(Call(t, "dequeue", q), Null)]
                      /\ pc' = pc
                 ELSE /\ loc' = [loc EXCEPT ![t] =
                                   [Call(t, "dequeue", q) EXCEPT !.next_node = nx]]
                      /\ pc' = [pc EXCEPT ![t] = "sc_deq_move"]
              /\ UNCHANGED <<kind, obj, head, tail, heap, fault, dfree, ghost>>

\* the payload is taken from the old head instead of from next_node
sc_dequeue_move_from_head(t) ==
  /\ At(t, "sc_deq_move")
  /\ LET n == head[loc[t].q]
         q == loc[t].q
     IN  \E d \in DataOutcomes(n) :
           /\ Access(n)
           /\ heap' = TakeData(heap, n)
           /\ loc' = [loc EXCEPT ![t] = Step([@ EXCEPT !.res = d])]
           /\ content' = [content EXCEPT ![q] = Rest(@)]
           /\ popped' = popped \o First(content[q])
  /\ pc' = [pc EXCEPT ![t] = "sc_deq_delete"]
  /\ UNCHANGED <<kind, obj, head, tail, fault, dfree, started, xchg, enqQ, done, ret>>

\* 79: std::unique_ptr<T> result = std::move(next_node->data);
sc_dequeue_move(t) ==
  /\ At(t, "sc_deq_move")
  /\ LET n == loc[t].next_node
         q == loc[t].q
     IN  \E d \in DataOutcomes(n) :
           /\ Access(n)
           /\ heap' = TakeData(heap, n)
           /\ loc' = [loc EXCEPT ![t] = Step([@ EXCEPT !.res = d])]
           /\ content' = [content EXCEPT ![q] = Rest(@)]
           /\ popped' = popped \o First(content[q])
  /\ pc' = [pc EXCEPT ![t] = "sc_deq_delete"]
  /\ UNCHANGED <<kind, obj, head, tail, fault, dfree, started, xchg, enqQ, done, ret>>

\* 80: delete this->head;
sc_dequeue_delete(t) ==
  /\ At(t, "sc_deq_delete")
  /\ LET h == head[loc[t].q] IN
       IF h = Null THEN UNCHANGED <<heap, dfree>>
       ELSE /\ heap' = Delete(heap, h)
            /\ Release(h)
  /\ loc' = [loc EXCEPT ![t] = Step(@)]
  /\ pc' = [pc EXCEPT ![t] = "sc_deq_advance"]
  /\ UNCHANGED <<kind, obj, head, tail, fault, uaf, ghost>>

\* 81-83: this->head = next_node; return result;
sc_dequeue_advance(t) ==
  /\ At(t, "sc_deq_advance")
  /\ head' = [head EXCEPT ![loc[t].q] = loc[t].next_node]
  /\ ret' = IF loc[t].res = Null THEN ret ELSE Append(ret, loc[t].res)
  /\ loc' = [loc EXCEPT ![t] = Return(Step(@), loc[t].res)]
  /\ pc' = [pc EXCEPT ![t] = "idle"]
  /\ UNCHANGED <<kind, obj, tail, heap, fault, uaf, dfree,
                 started, xchg, enqQ, done, content, popped>>

\* ----------------------------------------------------- MPMC_Queue::dequeue
\* lines 194-217; head is a std::atomic<Node*> that every consumer may advance

\* 198: Node* old_head = head.load(acquire);   (first round of a call)
mc_dequeue_call(t, q) ==
  /\ At(t, "idle")
  /\ kind = "MPMC"
  /\ Usable(q)
  /\ Len(ret) < MaxDeq
  /\ loc' = [loc EXCEPT ![t] = [Call(t, "dequeue", q) EXCEPT !.old_head = head[q],
                                                             !.rounds = 1]]
  /\ pc' = [pc EXCEPT ![t] = "mc_deq_next"]
  /\ UNCHANGED <<kind, obj, head, tail, heap, fault, uaf, dfree, ghost>>

\* 196-198: while (true) { Node* old_head = head.load(acquire);   (a later round)
mc_dequeue_retry(t) ==
  /\ At(t, "mc_deq_head")
  /\ loc' = [loc EXCEPT ![t] = [@ EXCEPT !.old_head = head[loc[t].q],
                                         !.next_node = Null, !.rounds = 2]]
  /\ pc' = [pc EXCEPT ![t] = "mc_deq_next"]
  /\ UNCHANGED <<kind, obj, head, tail, heap, fault, uaf, dfree, ghost>>

\* 199-204: Node* next_node = old_head->next.load(acquire);
\*          if (next_node == nullptr) return nullptr;
mc_dequeue_next(t) ==
  /\ At(t, "mc_deq_next")
  /\ LET h == loc[t].old_head IN
       IF h = Null THEN Crash
       ELSE \E nx \in NextOutcomes(h) :
              /\ Access(h)
              /\ IF nx = Null
                 THEN /\ loc' = [loc EXCEPT ![t] = Return(@, Null)]
                      /\ pc' = [pc EXCEPT ![t] = "idle"]
                 ELSE /\ loc' = [loc EXCEPT ![t] = [@ EXCEPT !.next_node = nx]]
                      /\ pc' = [pc EXCEPT ![t] = "mc_deq_cas"]
              /\ UNCHANGED <<kind, obj, head, tail, heap, fault, dfree, ghost>>

\* the compare-and-swap expects next_node, not old_head, in head
mc_dequeue_cas_wrong_expected(t) ==
  /\ At(t, "mc_deq_cas")
  /\ head[loc[t].q] = loc[t].next_node
  /\ head' = [head EXCEPT ![loc[t].q] = loc[t].next_node]
  /\ content' = [content EXCEPT ![loc[t].q] = Rest(@)]
  /\ popped' = popped \o First(content[loc[t].q])
  /\ pc' = [pc EXCEPT ![t] = "mc_deq_move"]
  /\ UNCHANGED loc
  /\ UNCHANGED <<kind, obj, tail, heap, fault, uaf, dfree,
                 started, xchg, enqQ, done, ret>>

\* 207-208 when it succeeds: head == old_head, and head becomes next_node;
\* rank is the place of this call among the calls that claimed an element
mc_dequeue_cas_ok(t) ==
  /\ At(t, "mc_deq_cas")
  /\ head[loc[t].q] = loc[t].old_head
  /\ head' = [head EXCEPT ![loc[t].q] = loc[t].next_node]
  /\ content' = [content EXCEPT ![loc[t].q] = Rest(@)]
  /\ popped' = popped \o First(content[loc[t].q])
  /\ pc' = [pc EXCEPT ![t] = "mc_deq_move"]
  /\ loc' = [loc EXCEPT ![t] = [@ EXCEPT !.rank = Len(popped) + 1]]
  /\ UNCHANGED <<kind, obj, tail, heap, fault, uaf, dfree,
                 started, xchg, enqQ, done, ret>>

\* a compare-and-swap that fails stores next_node into head all the same
mc_dequeue_cas_fail_stores(t) ==
  /\ At(t, "mc_deq_cas")
  /\ head' = [head EXCEPT ![loc[t].q] = loc[t].next_node]
  /\ pc' = [pc EXCEPT ![t] = "mc_deq_head"]
  /\ UNCHANGED loc
  /\ UNCHANGED <<kind, obj, tail, heap, fault, uaf, dfree, ghost>>

\* 207-208 when it fails: head differs from old_head, or compare_exchange_weak
\* fails spuriously; 215: retry
mc_dequeue_cas_fail(t) ==
  /\ At(t, "mc_deq_cas")
  /\ pc' = [pc EXCEPT ![t] = "mc_deq_head"]
  /\ UNCHANGED loc
  /\ UNCHANGED <<kind, obj, head, tail, heap, fault, uaf, dfree, ghost>>

\* 207-208: if (head.compare_exchange_weak(old_head, next_node, acq_rel, acquire))
mc_dequeue_cas(t) ==
  /\ At(t, "mc_deq_cas")
  /\ \/ mc_dequeue_cas_ok(t)
     \/ mc_dequeue_cas_fail(t)

\* 210: std::unique_ptr<T> result = std::move(next_node->data);
mc_dequeue_move(t) ==
  /\ At(t, "mc_deq_move")
  /\ LET n == loc[t].next_node IN
       \E d \in DataOutcomes(n) :
         /\ Access(n)
         /\ heap' = TakeData(heap, n)
         /\ loc' = [loc EXCEPT ![t] = [@ EXCEPT !.res = d]]
  /\ pc' = [pc EXCEPT ![t] = "mc_deq_delete"]
  /\ UNCHANGED <<kind, obj, head, tail, fault, dfree, ghost>>

\* 211-212: delete old_head; return result;
mc_dequeue_delete(t) ==
  /\ At(t, "mc_deq_delete")
  /\ LET h == loc[t].old_head IN
       /\ heap' = Delete(heap, h)
       /\ Release(h)
  /\ ret' = IF loc[t].res = Null THEN ret ELSE Append(ret, loc[t].res)
  /\ loc' = [loc EXCEPT ![t] = Return(@, loc[t].res)]
  /\ pc' = [pc EXCEPT ![t] = "idle"]
  /\ UNCHANGED <<kind, obj, head, tail, fault, uaf,
                 started, xchg, enqQ, done, content, popped>>

\* ---------------------------------------------------------------- is_empty
\* MPSC_Queue::is_empty (87-92) and MPMC_Queue::is_empty (220-225)

\* 89 / 222: Node* current_head = head;
is_empty_head(t, q) ==
  /\ At(t, "idle")
  /\ Usable(q)
  /\ loc' = [loc EXCEPT ![t] = [Call(t, "is_empty", q) EXCEPT !.current = head[q]]]
  /\ pc' = [pc EXCEPT ![t] = "ie_next"]
  /\ UNCHANGED <<kind, obj, head, tail, heap, fault, uaf, dfree, ghost>>

\* 90-91 / 223-224: return current_head->next.load(acquire) == nullptr;
is_empty_next(t) ==
  /\ At(t, "ie_next")
  /\ LET h == loc[t].current IN
       IF h = Null THEN Crash
       ELSE \E nx \in NextOutcomes(h) :
              /\ Access(h)
              /\ loc' = [loc EXCEPT ![t] = Return(@, nx = Null)]
              /\ pc' = [pc EXCEPT ![t] = "idle"]
              /\ UNCHANGED <<kind, obj, head, tail, heap, fault, dfree, ghost>>

\* ------------------------------------------------------------- size_approx
\* MPSC_Queue::size_approx (42-58) and MPMC_Queue::size_approx (228-244)

\* 44-45 / 230-231: int count = 0; Node* current = head;
size_approx_head(t, q) ==
  /\ At(t, "idle")
  /\ Usable(q)
  /\ loc' = [loc EXCEPT ![t] = [Call(t, "size_approx", q) EXCEPT !.current = head[q]]]
  /\ pc' = [pc EXCEPT ![t] = "sa_tail"]
  /\ UNCHANGED <<kind, obj, head, tail, heap, fault, uaf, dfree, ghost>>

\* 46 / 232: Node* tail_node = tail.load(acquire);
size_approx_tail(t) ==
  /\ At(t, "sa_tail")
  /\ loc' = [loc EXCEPT ![t] = [@ EXCEPT !.tail_node = tail[loc[t].q]]]
  /\ pc' = [pc EXCEPT ![t] = "sa_loop"]
  /\ UNCHANGED <<kind, obj, head, tail, heap, fault, uaf, dfree, ghost>>

\* 49-57 / 235-243: one round of while (current != tail_node) from the locals
\* (c, tl, cnt): the locals after it and whether the call returns count.
\* The counter stops at NumNodes + 1.
size_approx_round(c, tl, cnt) ==
  IF c = tl
  THEN {[current |-> c, count |-> cnt, returns |-> TRUE]}
  ELSE {IF nx = Null
        THEN [current |-> c, count |-> cnt, returns |-> TRUE]
        ELSE [current |-> nx, count |-> IF cnt <= NumNodes THEN cnt + 1 ELSE cnt,
              returns |-> FALSE] : nx \in NextOutcomes(c)}

\* 49-57 / 235-243: while (current != tail_node) { ... } return count;
size_approx_loop(t) ==
  /\ At(t, "sa_loop")
  /\ LET c == loc[t].current
         tl == loc[t].tail_node
     IN  IF c # tl /\ c = Null THEN Crash
         ELSE \E o \in size_approx_round(c, tl, loc[t].count) :
                /\ IF c = tl THEN uaf' = uaf ELSE Access(c)
                /\ IF o.returns
                   THEN /\ loc' = [loc EXCEPT ![t] = Return(@, o.count)]
                        /\ pc' = [pc EXCEPT ![t] = "idle"]
                   ELSE /\ loc' = [loc EXCEPT ![t] =
                                     [@ EXCEPT !.current = o.current, !.count = o.count]]
                        /\ pc' = pc
                /\ UNCHANGED <<kind, obj, head, tail, heap, fault, dfree, ghost>>

\* --------------------------------------------- destruction and move transfer
\* clean_nodes (28-38 / 169-179), the destructors (136-139 / 287-291), the move
\* assignments (98-114 / 247-262) and the move constructors (120-126 / 268-274)

\* 136-139 / 287-291, 30 / 171: ~Queue() { clean_nodes(); }  Node* current = head;
destroy_begin(t, q) ==
  /\ At(t, "idle")
  /\ Usable(q)
  /\ loc' = [loc EXCEPT ![t] = [Call(t, "destroy", q) EXCEPT !.current = head[q]]]
  /\ pc' = [pc EXCEPT ![t] = "clean_loop"]
  /\ UNCHANGED <<kind, obj, head, tail, heap, fault, uaf, dfree, ghost>>

\* the move assignment does not call clean_nodes()
move_assign_without_clean(t, dst, from) ==
  /\ At(t, "idle")
  /\ Usable(dst)
  /\ Usable(from)
  /\ IF dst = from
     THEN /\ loc' = [loc EXCEPT ![t] =
                       Return([Call(t, "move_assign", dst) EXCEPT !.src = from], Null)]
          /\ pc' = pc
     ELSE /\ loc' = [loc EXCEPT ![t] = [Call(t, "move_assign", dst) EXCEPT !.src = from]]
          /\ pc' = [pc EXCEPT ![t] = "move_transfer"]
  /\ UNCHANGED <<kind, obj, head, tail, heap, fault, uaf, dfree, ghost>>

\* 100-102 / 249-252, 30 / 171: if (this != &other) { this->clean_nodes(); ...
move_assign_begin(t, dst, from) ==
  /\ At(t, "idle")
  /\ Usable(dst)
  /\ Usable(from)
  /\ IF dst = from
     THEN /\ loc' = [loc EXCEPT ![t] =
                       Return([Call(t, "move_assign", dst) EXCEPT !.src = from], Null)]
          /\ pc' = pc
     ELSE /\ loc' = [loc EXCEPT ![t] =
                       [Call(t, "move_assign", dst) EXCEPT !.src = from,
                                                           !.current = head[dst]]]
          /\ pc' = [pc EXCEPT ![t] = "clean_loop"]
  /\ UNCHANGED <<kind, obj, head, tail, heap, fault, uaf, dfree, ghost>>

\* 32-37 / 173-178: while (current) { next_node = current->next.load(relaxed);
\*                                    delete current; current = next_node; }
\* one round, or the end of the loop and what follows it in the caller
clean_nodes_loop(t) ==
  /\ At(t, "clean_loop")
  /\ LET c == loc[t].current
         q == loc[t].q
     IN  IF c # Null
         THEN \E nx \in NextOutcomes(c) :
                /\ Access(c)
                /\ Release(c)
                /\ heap' = Delete(heap, c)
                /\ loc' = [loc EXCEPT ![t] = [@ EXCEPT !.current = nx]]
                /\ UNCHANGED <<kind, obj, head, tail, pc, fault, ghost>>
         ELSE IF loc[t].op = "destroy"
         THEN /\ obj' = [obj EXCEPT ![q] = "dead"]
              /\ content' = [content EXCEPT ![q] = <<>>]
              /\ loc' = [loc EXCEPT ![t] = Return(@, Null)]
              /\ pc' = [pc EXCEPT ![t] = "idle"]
              /\ UNCHANGED <<kind, head, tail, heap, fault, uaf, dfree,
                             started, xchg, enqQ, done, ret, popped>>
         ELSE /\ content' = [content EXCEPT ![q] = <<>>]
              /\ pc' = [pc EXCEPT ![t] = "move_transfer"]
              /\ UNCHANGED <<kind, obj, head, tail, heap, loc, fault, uaf, dfree,
                             started, xchg, enqQ, done, ret, popped>>

\* 105-110 / 255-258: tail = other.tail; head = other.head;
\*                    other.tail = nullptr; other.head = nullptr;
Transfer(f, dst, from) == [f EXCEPT ![dst] = f[from], ![from] = Null]

\* the move assignment takes over the tail of the source but not its head
move_transfer_tail_only(t) ==
  /\ At(t, "move_transfer")
  /\ LET dst == loc[t].q
         from == loc[t].src
     IN  /\ head' = [head EXCEPT ![from] = Null]
         /\ tail' = Transfer(tail, dst, from)
         /\ content' = [content EXCEPT ![dst] = content[from], ![from] = <<>>]
  /\ loc' = [loc EXCEPT ![t] = Return(@, Null)]
  /\ pc' = [pc EXCEPT ![t] = "idle"]
  /\ UNCHANGED <<kind, obj, heap, fault, uaf, dfree, started, xchg, enqQ, done, ret, popped>>

\* 104-113 / 254-261: the transfer of a move assignment, and return *this
move_transfer(t) ==
  /\ At(t, "move_transfer")
  /\ LET dst == loc[t].q
         from == loc[t].src
     IN  /\ head' = Transfer(head, dst, from)
         /\ tail' = Transfer(tail, dst, from)
         /\ content' = [content EXCEPT ![dst] = content[from], ![from] = <<>>]
  /\ loc' = [loc EXCEPT ![t] = Return(@, Null)]
  /\ pc' = [pc EXCEPT ![t] = "idle"]
  /\ UNCHANGED <<kind, obj, heap, fault, uaf, dfree, started, xchg, enqQ, done, ret, popped>>

\* 120-126 / 268-274: Queue(Queue&& other)
move_construct(t, dst, from) ==
  /\ At(t, "idle")
  /\ obj[dst] = "none"
  /\ Usable(from)
  /\ obj' = [obj EXCEPT ![dst] = "live"]
  /\ head' = Transfer(head, dst, from)
  /\ tail' = Transfer(tail, dst, from)
  /\ content' = [content EXCEPT ![dst] = content[from], ![from] = <<>>]
  /\ loc' = [loc EXCEPT ![t] =
               Return([Call(t, "move_construct", dst) EXCEPT !.src = from], Null)]
  /\ UNCHANGED <<kind, heap, pc, fault, uaf, dfree, started, xchg, enqQ, done, ret, popped>>

\* 128-134 / 279-285: Queue() { Node* dummy = new Node(); head = dummy; tail = dummy; }
construct(t, q) ==
  /\ At(t, "idle")
  /\ obj[q] = "none"
  /\ \E n \in NewChoices :
       /\ heap' = [heap EXCEPT ![n] = Node(Null)]
       /\ head' = [head EXCEPT ![q] = n]
       /\ tail' = [tail EXCEPT ![q] = n]
  /\ obj' = [obj EXCEPT ![q] = "live"]
  /\ loc' = [loc EXCEPT ![t] = Return(Call(t, "construct", q), Null)]
  /\ UNCHANGED <<kind, pc, fault, uaf, dfree, ghost>>

\* ------------------------------------------------------- undefined accesses

\* the node thread t dereferences or deletes in its next step
Target(t) ==
  CASE pc[t] = "enq_store" -> loc[t].prev_tail
    [] pc[t] \in {"sc_deq_move", "mc_deq_move"} -> loc[t].next_node
    [] pc[t] = "sc_deq_delete" -> head[loc[t].q]
    [] pc[t] \in {"mc_deq_next", "mc_deq_delete"} -> loc[t].old_head
    [] pc[t] = "ie_next" -> loc[t].current
    [] pc[t] = "sa_loop" /\ loc[t].current # loc[t].tail_node -> loc[t].current
    [] pc[t] = "clean_loop" -> loc[t].current
    [] OTHER -> Null

\* an access to a node that is not allocated aborts the run (a fault, or the
\* abort of an instrumented build)
bad_access(t) ==
  /\ fault = "none"
  /\ Target(t) # Null
  /\ ~Live(Target(t))
  /\ fault' = "bad_access"
  /\ UNCHANGED <<kind, obj, head, tail, heap, pc, loc, uaf, dfree, ghost>>

\* ------------------------------------------------------------- construction

\* MPSC_Queue() (128-134) / MPMC_Queue() (279-285) with the one sentinel at address 1
InitWith(k) ==
  /\ kind = k
  /\ obj = [q \in Queues |-> IF q = "A" THEN "live" ELSE "none"]
  /\ head = [q \in Queues |-> IF q = "A" THEN 1 ELSE Null]
  /\ tail = [q \in Queues |-> IF q = "A" THEN 1 ELSE Null]
  /\ heap = [n \in Nodes |-> IF n = 1 THEN Node(Null) ELSE Blank("unused")]
  /\ pc = [t \in Threads |-> "idle"]
  /\ loc = [t \in Threads |-> NoLoc]
  /\ fault = "none"
  /\ uaf = 0
  /\ dfree = 0
  /\ started = 0
  /\ xchg = <<>>
  /\ enqQ = <<>>
  /\ done = {}
  /\ content = [q \in Queues |-> <<>>]
  /\ popped = <<>>
  /\ ret = <<>>

\* -------------------------------------------- many producers, one consumer

InitSC == InitWith("MPSC")

NextSC ==
  \/ \E t \in Producers : enqueue_new(t, "A")
  \/ \E t \in Producers : enqueue_exchange(t)
  \/ \E t \in Producers : enqueue_store(t)
  \/ sc_dequeue_load("c1", "A")
  \/ sc_dequeue_move("c1")
  \/ sc_dequeue_delete("c1")
  \/ sc_dequeue_advance("c1")
  \/ is_empty_head("c1", "A")
  \/ is_empty_next("c1")
  \/ size_approx_head("c1", "A")
  \/ size_approx_tail("c1")
  \/ size_approx_loop("c1")

SpecSC == InitSC /\ [][NextSC]_vars

\* ------------------------------------------- many producers, many consumers

InitMC == InitWith("MPMC")

NextMC ==
  \/ \E t \in Producers : enqueue_new(t, "A")
  \/ \E t \in Producers : enqueue_exchange(t)
  \/ \E t \in Producers : enqueue_store(t)
  \/ \E t \in Consumers : mc_dequeue_call(t, "A")
  \/ \E t \in Consumers : mc_dequeue_retry(t)
  \/ \E t \in Consumers : mc_dequeue_next(t)
  \/ \E t \in Consumers : mc_dequeue_cas(t)
  \/ \E t \in Consumers : mc_dequeue_move(t)
  \/ \E t \in Consumers : mc_dequeue_delete(t)
  \/ \E t \in Consumers : is_empty_head(t, "A")
  \/ \E t \in Consumers : is_empty_next(t)
  \/ \E t \in Consumers : size_approx_head(t, "A")
  \/ \E t \in Consumers : size_approx_tail(t)
  \/ \E t \in Consumers : size_approx_loop(t)
  \/ \E t \in Threads : bad_access(t)

SpecMC == InitMC /\ [][NextMC]_vars

\* ----------------------- one producer, many consumers, under fair scheduling
\* Every thread that can take a step eventually takes one, and a
\* compare_exchange_weak that finds head unchanged again and again does not fail
\* spuriously for ever.

NextMCFair ==
  \/ enqueue_new("p1", "A")
  \/ enqueue_exchange("p1")
  \/ enqueue_store("p1")
  \/ \E t \in Consumers : mc_dequeue_call(t, "A")
  \/ \E t \in Consumers : mc_dequeue_retry(t)
  \/ \E t \in Consumers : mc_dequeue_next(t)
  \/ \E t \in Consumers : mc_dequeue_cas(t)
  \/ \E t \in Consumers : mc_dequeue_move(t)
  \/ \E t \in Consumers : mc_dequeue_delete(t)
  \/ \E t \in Consumers : bad_access(t)

InDequeue(t) ==
  \/ mc_dequeue_retry(t)
  \/ mc_dequeue_next(t)
  \/ mc_dequeue_cas(t)
  \/ mc_dequeue_move(t)
  \/ mc_dequeue_delete(t)

SpecMCFair ==
  /\ InitMC
  /\ [][NextMCFair]_vars
  /\ \A t \in Consumers :
       /\ WF_vars(InDequeue(t))
       /\ WF_vars(bad_access(t))
       /\ SF_vars(mc_dequeue_cas_ok(t))

\* ------------------------------- one thread, two queue objects, all operations

InitLife == \E k \in {"MPSC", "MPMC"} : InitWith(k)

NextLife ==
  \/ \E q \in Queues : enqueue_new("main", q)
  \/ enqueue_exchange("main")
  \/ enqueue_store("main")
  \/ \E q \in Queues : sc_dequeue_load("main", q)
  \/ sc_dequeue_move("main")
  \/ sc_dequeue_delete("main")
  \/ sc_dequeue_advance("main")
  \/ \E q \in Queues : mc_dequeue_call("main", q)
  \/ mc_dequeue_retry("main")
  \/ mc_dequeue_next("main")
  \/ mc_dequeue_cas("main")
  \/ mc_dequeue_move("main")
  \/ mc_dequeue_delete("main")
  \/ \E q \in Queues : is_empty_head("main", q)
  \/ is_empty_next("main")
  \/ \E q \in Queues : size_approx_head("main", q)
  \/ size_approx_tail("main")
  \/ size_approx_loop("main")
  \/ \E q \in Queues : construct("main", q)
  \/ \E dst, from \in Queues : move_construct("main", dst, from)
  \/ \E dst, from \in Queues : move_assign_begin("main", dst, from)
  \/ move_transfer("main")
  \/ \E q \in Queues : destroy_begin("main", q)
  \/ clean_nodes_loop("main")

SpecLife == InitLife /\ [][NextLife]_vars

\* ------------- many producers, one consumer that keeps calling dequeue, either
\* variant, under fair scheduling: a producer that has started an enqueue is not
\* stalled for ever (enqueue holds no lock and waits for nothing), the consumer
\* calls dequeue again and again, and compare_exchange_weak does not fail
\* spuriously for ever

NextOneConsumer ==
  \/ \E t \in Producers : enqueue_new(t, "A")
  \/ \E t \in Producers : enqueue_exchange(t)
  \/ \E t \in Producers : enqueue_store(t)
  \/ sc_dequeue_load("c1", "A")
  \/ sc_dequeue_move("c1")
  \/ sc_dequeue_delete("c1")
  \/ sc_dequeue_advance("c1")
  \/ mc_dequeue_call("c1", "A")
  \/ mc_dequeue_retry("c1")
  \/ mc_dequeue_next("c1")
  \/ mc_dequeue_cas("c1")
  \/ mc_dequeue_move("c1")
  \/ mc_dequeue_delete("c1")

SpecOneConsumerFair ==
  /\ InitLife
  /\ [][NextOneConsumer]_vars
  /\ \A t \in Producers : WF_vars(enqueue_exchange(t)) /\ WF_vars(enqueue_store(t))
  /\ WF_vars(sc_dequeue_load("c1", "A"))
  /\ WF_vars(sc_dequeue_move("c1"))
  /\ WF_vars(sc_dequeue_delete("c1"))
  /\ WF_vars(sc_dequeue_advance("c1"))
  /\ WF_vars(mc_dequeue_call("c1", "A"))
  /\ WF_vars(InDequeue("c1"))
  /\ SF_vars(mc_dequeue_cas_ok("c1"))

\* ------------------------- one thread, one queue object, the four operations

NextSeq ==
  \/ enqueue_new("main", "A")
  \/ enqueue_exchange("main")
  \/ enqueue_store("main")
  \/ sc_dequeue_load("main", "A")
  \/ sc_dequeue_move("main")
  \/ sc_dequeue_delete("main")
  \/ sc_dequeue_advance("main")
  \/ mc_dequeue_call("main", "A")
  \/ mc_dequeue_retry("main")
  \/ mc_dequeue_next("main")
  \/ mc_dequeue_cas("main")
  \/ mc_dequeue_move("main")
  \/ mc_dequeue_delete("main")
  \/ is_empty_head("main", "A")
  \/ is_empty_next("main")
  \/ size_approx_head("main", "A")
  \/ size_approx_tail("main")
  \/ size_approx_loop("main")

SpecSeq == InitLife /\ [][NextSeq]_vars

\* ------------- every producer enqueues once, then every consumer dequeues once
\* (the MPMC_Queue example of the README: the producers are joined before the
\* consumers are started)

Joined(T) == \A t \in T : pc[t] = "idle" /\ loc[t].op # "none"

NextOnce ==
  \/ \E t \in Producers : loc[t].op = "none" /\ enqueue_new(t, "A")
  \/ \E t \in Producers : enqueue_exchange(t)
  \/ \E t \in Producers : enqueue_store(t)
  \/ \E t \in Consumers :
       loc[t].op = "none" /\ Joined(Producers) /\ mc_dequeue_call(t, "A")
  \/ \E t \in Consumers : mc_dequeue_retry(t)
  \/ \E t \in Consumers : mc_dequeue_next(t)
  \/ \E t \in Consumers : mc_dequeue_cas(t)
  \/ \E t \in Consumers : mc_dequeue_move(t)
  \/ \E t \in Consumers : mc_dequeue_delete(t)
  \/ \E t \in Consumers : bad_access(t)

SpecOnce == InitMC /\ [][NextOnce]_vars

\* ------------------------------------------------------------------ claims

Idle(T) == \A t \in T : pc[t] = "idle"

NoDuplicates(s) == \A i, j \in 1..Len(s) : s[i] = s[j] => i = j

\* the chain of q is empty: what a dequeue sees when it returns the empty-result
Drained(q) == head[q] # Null /\ Live(head[q]) /\ heap[head[q]].next = Null

\* every enqueue call of the run was made and has returned
AllEnqueued == started = MaxEnq /\ done = Values

\* C1: MPSC_Queue with concurrent producers and one consumer: the values the
\* consumer's dequeue calls returned are, in order, a prefix of the enqueued
\* values in the order of their tail exchange (none twice, none skipped); once
\* every enqueue has returned and the consumer has drained the queue, they are
\* all of them.
C1_FifoPrefix ==
  /\ IsPrefix(ret, xchg)
  /\ (AllEnqueued /\ Idle({"c1"}) /\ Drained("A")) => ret = xchg

\* every value was returned, in an exchange order that differs from the call order
C1_Witness ==
  /\ AllEnqueued /\ Idle({"c1"}) /\ Drained("A")
  /\ Len(ret) = MaxEnq
  /\ ret = xchg
  /\ xchg[1] # 1

\* C2: MPMC_Queue with concurrent producers and consumers: the values returned
\* by all dequeue calls are enqueued values, none returned twice; once every
\* enqueue has returned and the consumers have drained the queue, every enqueued
\* value was returned.
C2_Multiset ==
  /\ Range(ret) \subseteq Range(xchg)
  /\ NoDuplicates(ret)
  /\ (AllEnqueued /\ Idle(Consumers) /\ Drained("A")) => Range(ret) = Range(xchg)

\* C3: MPMC_Queue: no thread reads or writes a field of a node after the node
\* was freed by a dequeue, and no node is freed twice.
C3_MemorySafe == uaf = 0 /\ dfree = 0 /\ fault # "bad_access"

\* the values of q whose enqueue call has returned and that no dequeue has claimed
ReadyValues(q) == Range(content[q]) \cap done

\* thread t's dequeue call reads the next-link of the head and returns the
\* empty-result in this step
ReturnsEmpty(t) ==
  /\ pc[t] \in {"idle", "mc_deq_next"}
  /\ pc'[t] = "idle"
  /\ loc'[t] # loc[t]
  /\ loc'[t].op = "dequeue"
  /\ loc'[t].res = Null

\* C4: dequeue returns the empty-result only if the queue is empty: whenever a
\* dequeue call returns nullptr, at the moment it read the head's next-link no
\* value whose enqueue call had returned was still undequeued, also while other
\* producers are in the middle of an enqueue.
C4_EmptyOnlyIfEmpty ==
  [][\A t \in Threads : ReturnsEmpty(t) => ReadyValues(loc'[t].q) = {}]_vars

\* thread t's is_empty call reads the next-link of the head and returns in this step
IsEmptyReturns(t) ==
  /\ pc[t] = "ie_next"
  /\ pc'[t] = "idle"
  /\ loc'[t].op = "is_empty"

\* C5: is_empty() returns true right after the queue was fully drained, and
\* false whenever a value whose enqueue call has returned is still undequeued,
\* also while another producer is between its tail exchange and its next-link
\* store.
C5_IsEmptyExact ==
  [][\A t \in Threads : IsEmptyReturns(t) =>
        /\ (ReadyValues(loc'[t].q) # {} => loc'[t].res = FALSE)
        /\ (content[loc'[t].q] = <<>> => loc'[t].res = TRUE)]_vars

\* the results of size_approx() on q when it runs alone from the locals (c, tl, cnt)
RECURSIVE Walk(_, _, _, _)
Walk(c, tl, cnt, fuel) ==
  IF c # tl /\ c = Null THEN {}
  ELSE UNION {IF o.returns \/ fuel = 0 THEN {o.count}
              ELSE Walk(o.current, tl, o.count, fuel - 1) :
              o \in size_approx_round(c, tl, cnt)}

SizeApprox(q) == Walk(head[q], tail[q], 0, NumNodes + 1)

\* C6: size_approx() called while no enqueue and no dequeue is in flight returns
\* the number of values enqueued so far minus the number of values dequeued so
\* far, after every history of concurrent enqueues and dequeues.
C6_SizeExactWhenQuiet ==
  (fault = "none" /\ Idle(Threads)) => SizeApprox("A") = {Len(xchg) - Len(ret)}

\* C7: every enqueue call and every MPSC_Queue::dequeue call returns after a
\* fixed number of its own steps (three and at most four), and the next step of
\* a call in progress can always be taken, whatever the other threads do or fail
\* to do.
C7_WaitFree ==
  \A t \in Threads :
    /\ loc[t].op = "enqueue" => loc[t].steps <= 3
    /\ (kind = "MPSC" /\ loc[t].op = "dequeue") => loc[t].steps <= 4
    /\ pc[t] = "enq_exchange" => ENABLED enqueue_exchange(t)
    /\ pc[t] = "enq_store" => ENABLED enqueue_store(t)
    /\ pc[t] = "sc_deq_move" => ENABLED sc_dequeue_move(t)
    /\ pc[t] = "sc_deq_delete" => ENABLED sc_dequeue_delete(t)
    /\ pc[t] = "sc_deq_advance" => ENABLED sc_dequeue_advance(t)

\* an enqueue returned after three steps while the other producer is stalled
\* between its tail exchange and its next-link store, and a dequeue returned a
\* value after four steps
C7_Witness ==
  /\ pc["p1"] = "idle" /\ loc["p1"].op = "enqueue" /\ loc["p1"].steps = 3
  /\ pc["p2"] = "enq_store"
  /\ pc["c1"] = "idle" /\ loc["c1"].op = "dequeue" /\ loc["c1"].steps = 4
  /\ loc["c1"].res # Null

\* thread t's compare-and-swap fails in this step and the call goes round its loop
Retries(t) == pc[t] = "mc_deq_cas" /\ pc'[t] = "mc_deq_head"

\* C8, its safety half: a consumer goes round the retry loop of
\* MPMC_Queue::dequeue only when its compare-and-swap failed because another
\* consumer advanced head after this consumer loaded it. compare_exchange_weak
\* may also fail with head unchanged.
C8_RetryOnlyWhenHeadMoved ==
  [][\A t \in Consumers : Retries(t) => head[loc[t].q] # loc[t].old_head]_vars

\* C8: MPMC_Queue::dequeue is lock-free; under fair scheduling every dequeue
\* call in progress eventually returns an element or the empty-result.
C8_EveryDequeueReturns ==
  \A t \in Consumers : (pc[t] # "idle") ~> (pc[t] = "idle")

\* what holds of the retry loop of C8: a compare-and-swap that succeeds found
\* head equal to old_head and installs next_node, one that finds head changed
\* fails, and every dequeue call in progress eventually returns unless an access
\* to a freed node ends the run.
C8_LockFree ==
  /\ [][\A t \in Consumers :
          /\ (pc[t] = "mc_deq_cas" /\ pc'[t] = "mc_deq_move") =>
                (head[loc[t].q] = loc[t].old_head /\ head'[loc[t].q] = loc[t].next_node)
          /\ (pc[t] = "mc_deq_cas" /\ pc'[t] # pc[t]
                /\ head[loc[t].q] # loc[t].old_head) => Retries(t)]_vars
  /\ \A t \in Consumers : (pc[t] # "idle") ~> (pc[t] = "idle" \/ fault # "none")

\* a dequeue call went round its loop (its head load was repeated) and then
\* returned a value
C8_Witness ==
  \E t \in Consumers :
    /\ pc[t] = "idle" /\ loc[t].op = "dequeue" /\ loc[t].res # Null
    /\ loc[t].rounds > 1

LiveNodes == {n \in Nodes : heap[n].st = "live"}

FreedNodes == {n \in Nodes : heap[n].st = "freed"}

\* the nodes met from n along the next-links, n first
RECURSIVE Path(_, _)
Path(n, fuel) ==
  IF n = Null \/ fuel = 0 THEN <<>>
  ELSE <<n>> \o Path(IF Live(n) THEN heap[n].next ELSE Null, fuel - 1)

\* the chain of queue object q, its sentinel first
Chain(q) == IF Usable(q) THEN Path(head[q], NumNodes) ELSE <<>>

\* the payloads of the chain of q behind its sentinel
ChainValues(q) ==
  [i \in 1..(Len(Chain(q)) - 1) |->
     IF Live(Chain(q)[i + 1]) THEN heap[Chain(q)[i + 1]].data ELSE Null]

\* C9: with no operation in flight the allocated nodes are exactly the nodes of
\* the chains of the queue objects that exist, no node is in two chains, and no
\* node was deleted twice or used after its delete: a destructor and the
\* clean_nodes of a move assignment free every node of the chain, the sentinel
\* included, once, and a moved-from queue frees nothing.
C9_DestructionFreesAll ==
  /\ dfree = 0
  /\ uaf = 0
  /\ Idle({"main"}) =>
       /\ LiveNodes = UNION {Range(Chain(q)) : q \in Queues}
       /\ Range(Chain("A")) \cap Range(Chain("B")) = {}

\* both objects are destroyed, A after it was moved from, B after it took over
\* A's chain by a move assignment that freed B's own sentinel; three undequeued
\* values and both sentinels were freed
C9_Witness ==
  /\ Idle({"main"})
  /\ obj["A"] = "dead" /\ obj["B"] = "dead"
  /\ head["A"] = Null /\ head["B"] # Null
  /\ started = MaxEnq /\ ret = <<>>
  /\ LiveNodes = {}
  /\ Cardinality(FreedNodes) = MaxEnq + 2

\* C10: after a move (construction or assignment) the destination holds exactly
\* the values the source held, in order, and the source holds none: with no
\* operation in flight the payloads of every chain are the values of the
\* reference content, which a move hands from the source to the destination, and
\* the values returned by dequeue are the values taken from the front of the
\* reference contents; values the destination held before a move assignment
\* are never returned.
C10_MoveKeepsContent ==
  Idle({"main"}) =>
    /\ ret = popped
    /\ \A q \in Queues : (Usable(q) /\ head[q] # Null) => ChainValues(q) = content[q]

\* the last call was a dequeue on B that returned the first of two values
\* enqueued on A; the second is still in B; a value enqueued on B before the
\* move assignment is neither returned nor in a chain
C10_Witness ==
  /\ Idle({"main"})
  /\ loc["main"].op = "dequeue" /\ loc["main"].q = "B"
  /\ loc["main"].res # Null
  /\ ret = <<loc["main"].res>>
  /\ enqQ[loc["main"].res] = "A"
  /\ Len(content["B"]) = 1 /\ enqQ[content["B"][1]] = "A"
  /\ content["A"] = <<>>
  /\ \E v \in 1..started : enqQ[v] = "B"

\* queue object q exists and was the source of a move: its head and tail were
\* reset to nullptr
MovedFrom(q) == Usable(q) /\ head[q] = Null /\ tail[q] = Null

\* C11: a queue that was moved from behaves as an empty, freshly constructed
\* queue: no call on it dereferences a null head or tail, is_empty() returns
\* true, size_approx() returns 0 and dequeue() returns the empty-result.
C11_MovedFromBehavesEmpty ==
  /\ fault # "null_deref"
  /\ \A q \in Queues :
       (MovedFrom(q) /\ Idle({"main"}) /\ loc["main"].q = q) =>
          /\ loc["main"].op = "is_empty" => loc["main"].res = TRUE
          /\ loc["main"].op = "size_approx" => loc["main"].res = 0
          /\ loc["main"].op = "dequeue" => loc["main"].res = Null

\* the reference sequence of a queue used by one thread: the values enqueued,
\* in call order, without the values dequeued so far
Reference == SubSeq(xchg, Len(ret) + 1, Len(xchg))

\* C12: used by one thread, either queue refines a FIFO sequence: the chain
\* holds the reference sequence, every value dequeue returns is the first of the
\* reference, dequeue returns the empty-result only when the reference is
\* empty, is_empty() is true iff it is empty and size_approx() is its length.
C12_SequentialRefinement ==
  Idle({"main"}) =>
    /\ fault = "none"
    /\ IsPrefix(ret, xchg)
    /\ ret = popped
    /\ content["A"] = Reference
    /\ ChainValues("A") = Reference
    /\ loc["main"].op = "dequeue" =>
         IF loc["main"].res = Null THEN Reference = <<>>
         ELSE ret # <<>> /\ loc["main"].res = ret[Len(ret)]
    /\ loc["main"].op = "is_empty" => loc["main"].res = (Reference = <<>>)
    /\ loc["main"].op = "size_approx" => loc["main"].res = Len(Reference)

\* enqueue 1, 2, 3, then four dequeues: 1, 2, 3 and the empty-result
C12_Witness ==
  /\ Idle({"main"})
  /\ xchg = <<1, 2, 3>>
  /\ ret = <<1, 2, 3>>
  /\ loc["main"].op = "dequeue" /\ loc["main"].res = Null

\* C13: MPMC_Queue: after every producer has completed one enqueue of a
\* distinct value, every consumer calls dequeue once, concurrently: each call
\* returns a value and not the empty-result, the values returned are pairwise
\* distinct, and together they are the values enqueued.
C13_NoSpuriousEmpty ==
  /\ \A t \in Consumers :
       (pc[t] = "idle" /\ loc[t].op = "dequeue") => loc[t].res \in Range(xchg)
  /\ Joined(Consumers) =>
       /\ \A t, u \in Consumers : loc[t].res = loc[u].res => t = u
       /\ {loc[t].res : t \in Consumers} = Range(xchg)

\* queue object q is being torn down: its destructor or the clean_nodes of a
\* move assignment into it is running
TornDown(q) ==
  \E t \in Threads : pc[t] \in {"clean_loop", "move_transfer"} /\ loc[t].q = q

\* C14: as long as a queue object exists, also after it was the source of a
\* move, its head is not null and references an allocated node, and so does
\* its tail: the chain always holds at least the sentinel.
C14_SentinelInvariant ==
  \A q \in Queues :
    (Usable(q) /\ ~TornDown(q)) => (Live(head[q]) /\ Live(tail[q]))

\* the nodes reachable from the head of A by the next-links, behind the head
Reachable == Range(Chain("A")) \ {head["A"]}

\* the nodes that hold an element no dequeue has removed: allocated, with the
\* payload still in them, and swung into the tail by their producer
Holding ==
  {n \in Nodes : /\ Live(n)
                 /\ heap[n].data # Null
                 /\ \A t \in Threads : ~(pc[t] = "enq_exchange" /\ loc[t].new_node = n)}

\* C15 as stated: a node is reachable from head by the next-links iff its
\* element has not been removed by a dequeue; with no dequeue call in flight
\* the nodes behind head are exactly the nodes exchanged into the tail whose
\* payload is still in them, also while a producer is between its tail exchange
\* and its next-link store.
C15_ReachableIffUndequeued ==
  (fault = "none" /\ Idle(Consumers)) => Reachable = Holding

\* C15, for the nodes that are linked: with no dequeue call in flight every
\* node behind head is allocated and holds an element that was not removed,
\* and once every enqueue call has returned every such node is behind head.
C15_ReachableIffLinked ==
  (fault = "none" /\ Idle(Consumers)) =>
     /\ Reachable \subseteq Holding
     /\ Idle(Producers) => Reachable = Holding

\* C16: MPMC_Queue: with the enqueues ordered by their tail exchange and the
\* successful dequeues by their successful compare-and-swap on head, the k-th
\* successful dequeue returns the value of the k-th enqueue: a call that has
\* moved the payload out holds the value exchanged at the place of its rank.
C16_FifoClaimOrder ==
  \A t \in Consumers :
    pc[t] = "mc_deq_delete" =>
       /\ loc[t].rank \in 1..Len(xchg)
       /\ loc[t].res = xchg[loc[t].rank]

\* thread t is about to move the payload out of node n (line 79 / 210)
MovesOut(t, n) == pc[t] \in {"sc_deq_move", "mc_deq_move"} /\ loc[t].next_node = n

\* C17: the node a dequeue call is about to move the payload out of is
\* allocated, was linked into the chain by its producer's next-link store,
\* still holds the value its producer stored (in MPMC_Queue the value this
\* call claimed by its compare-and-swap), and no other call is about to move
\* out the same payload.
C17_PayloadDiscipline ==
  \A t \in Consumers : \A n \in Nodes \cup {Null} :
    MovesOut(t, n) =>
       /\ Live(n)
       /\ heap[n].data \in done
       /\ kind = "MPMC" =>
            (loc[t].rank \in 1..Len(xchg) /\ heap[n].data = xchg[loc[t].rank])
       /\ kind = "MPSC" => <<heap[n].data>> = First(content[loc[t].q])
       /\ \A u \in Consumers \ {t} : ~MovesOut(u, n)

\* C18: while a producer is between its tail exchange and its next-link store
\* a dequeue that reads the null next-link returns the empty-result and nothing
\* faults; with producers that are not stalled for ever the store happens, and
\* a consumer that keeps calling dequeue receives every value whose tail
\* exchange has happened.
C18_PendingPublishConverges ==
  /\ [](fault = "none" /\ uaf = 0 /\ dfree = 0)
  /\ \A v \in Values : (v \in Range(xchg)) ~> (v \in Range(ret))

\* a producer is between its tail exchange and its next-link store, its value
\* is the oldest undequeued one, and the consumer's dequeue has just returned
\* the empty-result
C18_Witness ==
  /\ \E t \in Producers :
       pc[t] = "enq_store" /\ content["A"] # <<>> /\ loc[t].v = Head(content["A"])
  /\ pc["c1"] = "idle" /\ loc["c1"].op = "dequeue" /\ loc["c1"].res = Null
  /\ ret # <<>>

\* thread t takes a step of is_empty() or size_approx(), of a dequeue() that
\* returns the empty-result in this step, or a compare-and-swap that fails
ReadOnlyStep(t) ==
  \/ pc[t] \in {"ie_next", "sa_tail", "sa_loop"} /\ <<pc'[t], loc'[t]>> # <<pc[t], loc[t]>>
  \/ pc[t] = "idle" /\ pc'[t] \in {"ie_next", "sa_tail"}
  \/ ReturnsEmpty(t)
  \/ Retries(t)

\* C19: is_empty(), size_approx(), a dequeue() that returns the empty-result
\* and a compare-and-swap that fails modify neither head nor tail nor the
\* next-link or payload of any node, and free no node.
C19_ReadOnlyFrame ==
  [][\A t \in Threads :
       ReadOnlyStep(t) => (head' = head /\ tail' = tail /\ heap' = heap /\ obj' = obj)]_vars

\* size_approx() has just returned 2 on a queue that holds two values, and the
\* chain still carries them
C19_Witness ==
  /\ pc["main"] = "idle"
  /\ loc["main"].op = "size_approx" /\ loc["main"].res = 2
  /\ Len(content[loc["main"].q]) = 2
  /\ ChainValues(loc["main"].q) = content[loc["main"].q]

\* C20: node accounting: with no call in flight the allocated nodes are one
\* payload-bearing node for each value enqueued and not yet dequeued plus the
\* sentinel, and no dequeue deletes a node that is not allocated: each
\* successful dequeue frees exactly one node, the old head.
C20_NodeAccounting ==
  /\ dfree = 0
  /\ (fault = "none" /\ Idle(Threads)) =>
        /\ Cardinality(Holding) = Len(xchg) - Len(ret)
        /\ Cardinality(LiveNodes) = Len(xchg) - Len(ret) + 1

\* thread t's compare-and-swap on head succeeds in this step
Claims(t) == pc[t] = "mc_deq_cas" /\ pc'[t] = "mc_deq_move"

\* C21: no ABA on the head of MPMC_Queue, also when the addresses of freed
\* nodes are handed out again: every compare-and-swap that succeeds moves head
\* from the current sentinel to the node that is its successor in the chain at
\* that moment, an allocated node, and never installs a freed node or a node
\* that is not the current successor.
C21_NoABA ==
  [][\A t \in Consumers :
       Claims(t) =>
          /\ Live(head[loc[t].q])
          /\ heap[head[loc[t].q]].next = loc[t].next_node
          /\ Live(loc[t].next_node)
          /\ head'[loc[t].q] = loc[t].next_node]_vars

====
